---- MODULE Spec2Model ----
(***************************************************************************)
(* Model of the dionis reporting pipeline (scripts/generate_report.py and  *)
(* utils/data_cleaner.py): the record normalizer, the entity resolver, the *)
(* observation aggregator, the biological attribute summarizer and the     *)
(* statistics aggregator.  The three MongoDB collections are immutable     *)
(* snapshots; generate_report runs over them step by step.                 *)
(*                                                                         *)
(* A pandas DataFrame is a sequence of rows (records).  A missing cell is  *)
(* None for text cells, NaN for numeric cells and a tagged cell for the    *)
(* list-valued column biological_data_list.                                *)
(***************************************************************************)
EXTENDS Integers, Sequences, FiniteSets, TLC

(***************************************************************************)
(* Bounds of the model.                                                    *)
(***************************************************************************)
\* Spec: classification and observation records in the snapshots.
MaxClassifications == 2
MaxObservations == 1
\* SpecObs: the observation-heavy scenario.
MaxObsClassifications == 1
MaxObsObservations == 2
\* SpecConf: the confidence-heavy scenario.
MaxConfClassifications == 3
\* SpecBio: the biological-data scenario.
MaxBioObservations == 3
\* Classifications of the species-filter scenario.
MaxFilterClassifications == 1
\* Classifications of the missing-field scenario.
MaxMissingClassifications == 2
\* Classifications and observations of the summary-merge scenario.
MaxMergeClassifications == 2
MaxMergeObservations == 1
\* Classifications of the configuration scenario.
MaxConfigClassifications == 1
\* Classifications of the name-fallback scenario.
MaxFallbackClassifications == 1
\* Classifications of the audio-file scenario.
MaxAudioClassifications == 3
\* Classifications of the excluded-species scenario.
MaxExcludedClassifications == 2
\* Messages on the Kafka topic.
MaxMessages == 3
\* The scraper's retry_attempts and the pages it fetches.
MaxRetryAttempts == 3
MaxPages == 3
\* Audio files in the source directory and detections in one API response.
MaxFiles == 2
MaxDetections == 2
\* float64 has 53 significand bits; the model rounds the same way at this width.
SignificandBits == 4

(***************************************************************************)
(* Missing values.                                                         *)
(***************************************************************************)
None == "None"
NaN == 0 - 1
NaNList == [na |-> TRUE, list |-> <<>>]
ListCell(l) == [na |-> FALSE, list |-> l]

(***************************************************************************)
(* Binary floating point, round to nearest, ties to even.  A number is an  *)
(* integer count of the model's least unit; a float has at most            *)
(* SignificandBits significant bits above that unit.                       *)
(***************************************************************************)
RECURSIVE Pow2(_)
Pow2(n) == IF n = 0 THEN 1 ELSE 2 * Pow2(n - 1)

\* The float 1.0.
One == Pow2(SignificandBits + 2)

\* Spacing of the floats around the rational num/den (tried from spacing s up).
RECURSIVE Ulp(_, _, _)
Ulp(num, den, s) ==
    IF num < s * Pow2(SignificandBits) * den THEN s ELSE Ulp(num, den, 2 * s)

\* The float nearest to the rational num/den.
RoundFloat(num, den) ==
    LET s == Ulp(num, den, 1)
        lo == (num \div (den * s)) * s
        rest == 2 * (num - lo * den)
    IN  IF rest < s * den THEN lo
        ELSE IF rest > s * den THEN lo + s
        ELSE IF (lo \div s) % 2 = 0 THEN lo ELSE lo + s

\* Left-to-right float accumulation.
RECURSIVE FloatSum(_)
FloatSum(values) ==
    IF values = <<>> THEN 0
    ELSE RoundFloat(FloatSum(SubSeq(values, 1, Len(values) - 1)) + values[Len(values)], 1)

\* Mutant of FloatMean: the sum left undivided.
FloatMeanUndivided(values) == FloatSum(values)

\* 'mean' of a float column / sum(v) / len(v).
FloatMean(values) == RoundFloat(FloatSum(values), Len(values))

(***************************************************************************)
(* Sequence helpers.                                                       *)
(***************************************************************************)
Range(s) == {s[i] : i \in 1..Len(s)}

RECURSIVE Concat(_)
Concat(ss) == IF ss = <<>> THEN <<>> ELSE Head(ss) \o Concat(Tail(ss))

Map(s, Op(_)) == [i \in 1..Len(s) |-> Op(s[i])]

IndexPermutations(n) == {p \in [1..n -> 1..n] : \A i, j \in 1..n : p[i] = p[j] => i = j}

\* Every order a (possibly unstable) descending sort by Key may leave s in.
SortDescOutcomes(s, Key(_)) ==
    {[i \in 1..Len(s) |-> s[p[i]]] : p \in
        {q \in IndexPermutations(Len(s)) :
            \A i \in 1..(Len(s) - 1) : Key(s[q[i]]) >= Key(s[q[i + 1]])}}

\* All sequences over pool of length at most n.
SeqsUpTo(pool, n) == UNION {[1..m -> pool] : m \in 0..n}

(***************************************************************************)
(* Record Normalizer: DataCleaner.clean_classifications.                   *)
(***************************************************************************)
ConfidenceOf(r) == r.confidence

\* df[df['confidence'] >= min_confidence]
FilterByConfidence(rows, t) == SelectSeq(rows, LAMBDA r : r.confidence >= t)

\* Mutant of DropDuplicates: no row dropped.
KeepDuplicates(rows) == rows

\* Mutant of DropDuplicates: keep='last'.
DropDuplicatesKeepLast(rows) ==
    LET keep(i) == \A j \in (i + 1)..Len(rows) :
                      ~(rows[j].audio_file_id = rows[i].audio_file_id
                        /\ rows[j].key = rows[i].key)
        RECURSIVE pick(_)
        pick(i) == IF i > Len(rows) THEN <<>>
                   ELSE (IF keep(i) THEN <<rows[i]>> ELSE <<>>) \o pick(i + 1)
    IN  pick(1)

\* drop_duplicates(subset=['audio_file_id', 'key'], keep='first')
DropDuplicates(rows) ==
    LET keep(i) == \A j \in 1..(i - 1) :
                      ~(rows[j].audio_file_id = rows[i].audio_file_id
                        /\ rows[j].key = rows[i].key)
        idx == {i \in 1..Len(rows) : keep(i)}
        RECURSIVE pick(_)
        pick(i) == IF i > Len(rows) THEN <<>>
                   ELSE (IF i \in idx THEN <<rows[i]>> ELSE <<>>) \o pick(i + 1)
    IN  pick(1)

\* The DataFrames clean_classifications may return (one per tie order of the sort).
clean_classifications(classifications, t) ==
    IF classifications = <<>> THEN {<<>>}
    ELSE {DropDuplicates(s) :
            s \in SortDescOutcomes(FilterByConfidence(classifications, t), ConfidenceOf)}

\* Python truthiness of a text cell.
Truthy(v) == v # None /\ v # ""

(***************************************************************************)
(* Species filter: DataCleaner.filter_species_fuzzy.                       *)
(***************************************************************************)
\* rapidfuzz process.extract is called without limit: its default applies.
ExtractLimit == 5

\* threshold=70 at the call in fetch_data_from_mongodb.
FuzzyThreshold == 70

\* Names that contain the filter term "Parus" ("Ninox boobook" shares no character
\* with it).
ParusNames ==
    {"Parus major", "Parus minor", "Parus ater", "Parus caeruleus",
     "Parus cristatus", "Parus montanus"}

\* fuzz.partial_ratio(filter_term, name) for the filter term "Parus": 100 when the
\* term is a substring of the name, 0 when they share no character.  In
\* "Periparus ater" the best window is "parus": four of five characters in
\* common with the term, 100 * (2 * 4) / (5 + 5) = 80.
partial_ratio(filter_term, name) ==
    IF filter_term = "Parus" /\ name \in ParusNames \cup {"Parus major Linnaeus, 1758"}
    THEN 100
    ELSE IF filter_term = "Parus" /\ name = "Periparus ater" THEN 80 ELSE 0

\* The choices process.extract scores at or above score_cutoff.
ScoredMatches(species_list, filter_term, threshold) ==
    {i \in 1..Len(species_list) :
        partial_ratio(filter_term, species_list[i]) >= threshold}

\* process.extract(filter_term, species_list, scorer, score_cutoff): the best
\* ExtractLimit choices among those meeting the cutoff, as sets of positions
\* (every choice among equal scores).
extract(species_list, filter_term, threshold) ==
    LET matches == ScoredMatches(species_list, filter_term, threshold)
    IN  IF Cardinality(matches) <= ExtractLimit THEN {matches}
        ELSE {best \in SUBSET matches :
                /\ Cardinality(best) = ExtractLimit
                /\ \A i \in best : \A j \in matches \ best :
                      partial_ratio(filter_term, species_list[i]) >=
                          partial_ratio(filter_term, species_list[j])}

\* The sets of names filter_species_fuzzy may return (None: no filter term).
filter_species_fuzzy(species_list, filter_term, threshold) ==
    IF ~Truthy(filter_term) THEN {Range(species_list)}
    ELSE {{species_list[i] : i \in best} :
             best \in extract(species_list, filter_term, threshold)}

ScientificNameOf(s) == s.scientific_name

\* species_df[species_df[name_column].isin(filtered_names)], when a filter is set.
FilteredSpecies(species_docs, species_filter) ==
    IF ~Truthy(species_filter) THEN {species_docs}
    ELSE {SelectSeq(species_docs, LAMBDA d : d.scientific_name \in names) :
             names \in filter_species_fuzzy(Map(species_docs, ScientificNameOf),
                                            species_filter, FuzzyThreshold)}

(***************************************************************************)
(* Entity Resolver: fetch_data_from_mongodb, the species join.             *)
(***************************************************************************)
\* A classification row left-joined to species row s (NoSpecies when unmatched).
NoSpecies ==
    [scientific_name |-> None, canonical_name |-> None, family |-> None, order |-> None]

JoinedRow(c, s) ==
    [_id |-> c._id, audio_file_id |-> c.audio_file_id, key |-> c.key,
     confidence |-> c.confidence,
     scientific_name_class |-> c.scientific_name,
     scientific_name_species |-> s.scientific_name,
     canonical_name |-> s.canonical_name, family |-> s.family, order |-> s.order,
     key_species |-> NaN, canonical_name_species |-> None,
     family_species |-> None, order_species |-> None]

\* Mutant of MergeSpecies: how='inner'.
MergeSpeciesInner(classifications, species_df) ==
    LET joined(c) ==
            LET m == SelectSeq(species_df, LAMBDA s : s.key = c.key)
            IN  [i \in 1..Len(m) |-> JoinedRow(c, m[i])]
    IN  Concat([i \in 1..Len(classifications) |-> joined(classifications[i])])

\* classifications_df.merge(species_df[merge_columns], on='key', how='left')
MergeSpecies(classifications, species_df) ==
    LET joined(c) ==
            LET m == SelectSeq(species_df, LAMBDA s : s.key = c.key)
            IN  IF m = <<>> THEN <<JoinedRow(c, NoSpecies)>>
                ELSE [i \in 1..Len(m) |-> JoinedRow(c, m[i])]
    IN  Concat([i \in 1..Len(classifications) |-> joined(classifications[i])])

\* species_df[(scientific_name == sci_name) | (canonical_name == sci_name)]
SpeciesMatch(species_df, sci_name) ==
    SelectSeq(species_df,
              LAMBDA s : s.scientific_name = sci_name \/ s.canonical_name = sci_name)

\* Mutant of UpdateMatched: the matched species' columns written onto the record's own.
UpdateMatchedOwnColumns(row, matched_species) ==
    [row EXCEPT !.key = matched_species.key,
                !.scientific_name_species = matched_species.scientific_name,
                !.canonical_name = matched_species.canonical_name,
                !.family = matched_species.family,
                !.order = matched_species.order]

\* result_df.loc[idx, f'{col}_species'] = matched_species[col], for col in merge_columns
UpdateMatched(row, matched_species) ==
    [row EXCEPT !.key_species = matched_species.key,
                !.scientific_name_species = matched_species.scientific_name,
                !.canonical_name_species = matched_species.canonical_name,
                !.family_species = matched_species.family,
                !.order_species = matched_species.order]

\* Mutant of NameFallbackRow: species_match.iloc[-1], the last match.
NameFallbackRowLastMatch(row, species_df) ==
    IF row.scientific_name_species = None
       /\ Truthy(row.scientific_name_class)
       /\ row.scientific_name_class # "Unknown"
       /\ SpeciesMatch(species_df, row.scientific_name_class) # <<>>
    THEN LET m == SpeciesMatch(species_df, row.scientific_name_class)
         IN  UpdateMatched(row, m[Len(m)])
    ELSE row

\* The name fallback over the rows whose species join found nothing.
NameFallbackRow(row, species_df) ==
    IF row.scientific_name_species = None
       /\ Truthy(row.scientific_name_class)
       /\ row.scientific_name_class # "Unknown"
       /\ SpeciesMatch(species_df, row.scientific_name_class) # <<>>
    THEN UpdateMatched(row, SpeciesMatch(species_df, row.scientific_name_class)[1])
    ELSE row

NameFallback(rows, species_df) ==
    [i \in 1..Len(rows) |-> NameFallbackRow(rows[i], species_df)]

\* Mutant of SelectNameRow: scientific_name_class.fillna(scientific_name_species).
SelectNameRowClassFirst(row) ==
    [_id |-> row._id, audio_file_id |-> row.audio_file_id, key |-> row.key,
     confidence |-> row.confidence,
     scientific_name |-> IF row.scientific_name_class # None
                         THEN row.scientific_name_class
                         ELSE row.scientific_name_species,
     canonical_name |-> row.canonical_name, family |-> row.family, order |-> row.order,
     key_species |-> row.key_species,
     canonical_name_species |-> row.canonical_name_species,
     family_species |-> row.family_species, order_species |-> row.order_species,
     observation_count |-> NaN, biological_data_list |-> NaNList]

\* scientific_name_species.fillna(scientific_name_class), then both columns dropped.
SelectNameRow(row) ==
    [_id |-> row._id, audio_file_id |-> row.audio_file_id, key |-> row.key,
     confidence |-> row.confidence,
     scientific_name |-> IF row.scientific_name_species # None
                         THEN row.scientific_name_species
                         ELSE row.scientific_name_class,
     canonical_name |-> row.canonical_name, family |-> row.family, order |-> row.order,
     key_species |-> row.key_species,
     canonical_name_species |-> row.canonical_name_species,
     family_species |-> row.family_species, order_species |-> row.order_species,
     observation_count |-> NaN, biological_data_list |-> NaNList]

SelectName(rows) == [i \in 1..Len(rows) |-> SelectNameRow(rows[i])]

\* The resolved records before any observation data is merged.
ResolveSpecies(classifications, species_df) ==
    SelectName(NameFallback(MergeSpecies(classifications, species_df), species_df))

(***************************************************************************)
(* Observation Aggregator: fetch_data_from_mongodb, the observation merge. *)
(***************************************************************************)
\* Some enumeration of a finite set (the groups of a groupby have distinct keys).
SetToSeq(S) == CHOOSE s \in [1..Cardinality(S) -> S] : Range(s) = S

\* species_df.set_index('key')['scientific_name'].to_dict(), applied by .map()
key_to_name(species_df, key) ==
    IF \E i \in 1..Len(species_df) : species_df[i].key = key
    THEN species_df[CHOOSE i \in 1..Len(species_df) :
                        /\ species_df[i].key = key
                        /\ \A j \in (i + 1)..Len(species_df) : species_df[j].key # key
                   ].scientific_name
    ELSE None

\* observations_df['scientific_name'] = observations_df['key'].map(key_to_name)
EnrichObservations(observations, species_df) ==
    [i \in 1..Len(observations) |->
        [_id |-> observations[i]._id, key |-> observations[i].key,
         biological_data |-> observations[i].biological_data,
         scientific_name |-> key_to_name(species_df, observations[i].key)]]

BiologicalDataOf(o) == o.biological_data

\* Mutant of obs_by_key: the groupby without the key > 0 filter.
obs_by_key_every_key(observations) ==
    {[key |-> k,
      observation_count |->
          Len(SelectSeq(observations, LAMBDA o : o.key = k)),
      biological_data_list |->
          Map(SelectSeq(observations, LAMBDA o : o.key = k), BiologicalDataOf)]
     : k \in {observations[i].key : i \in 1..Len(observations)}}

\* observations_df[key > 0].groupby('key').agg(count, tolist)
obs_by_key(observations) ==
    {[key |-> k,
      observation_count |->
          Len(SelectSeq(observations, LAMBDA o : o.key = k)),
      biological_data_list |->
          Map(SelectSeq(observations, LAMBDA o : o.key = k), BiologicalDataOf)]
     : k \in {observations[i].key : i \in {j \in 1..Len(observations) :
                                              observations[j].key > 0}}}

\* obs_with_names.groupby('scientific_name').agg(count, tolist)
obs_by_name(observations) ==
    {[scientific_name |-> n,
      observation_count_by_name |->
          Len(SelectSeq(observations, LAMBDA o : o.scientific_name = n)),
      biological_data_by_name |->
          Map(SelectSeq(observations, LAMBDA o : o.scientific_name = n), BiologicalDataOf)]
     : n \in {observations[i].scientific_name : i \in 1..Len(observations)} \ {None}}

\* result_df.merge(obs_by_key, on='key', how='left')
MergeObsByKey(rows, groups) ==
    LET joined(r) ==
            LET m == SetToSeq({g \in groups : g.key = r.key})
            IN  IF m = <<>> THEN <<r>>
                ELSE [i \in 1..Len(m) |->
                        [r EXCEPT !.observation_count = m[i].observation_count,
                                  !.biological_data_list =
                                      ListCell(m[i].biological_data_list)]]
    IN  Concat([i \in 1..Len(rows) |-> joined(rows[i])])

\* Python truthiness of a biological_data cell: NaN is a float and is truthy.
TruthyCell(c) == c.na \/ c.list # <<>>

\* x or []
OrEmptyList(c) == IF TruthyCell(c) THEN c ELSE ListCell(<<>>)

combine_bio_data(biological_data_list, biological_data_by_name) ==
    LET data1 == OrEmptyList(biological_data_list)
        data2 == OrEmptyList(biological_data_by_name)
    IN  IF TruthyCell(data1) THEN data1
        ELSE IF TruthyCell(data2) THEN data2
        ELSE NaNList

\* Mutant of CombineCount: the two aggregates added up.
CombineCountSum(observation_count, observation_count_by_name) ==
    IF observation_count = NaN THEN observation_count_by_name
    ELSE IF observation_count_by_name = NaN THEN observation_count
    ELSE observation_count + observation_count_by_name

\* observation_count if pd.notna(observation_count) else observation_count_by_name
CombineCount(observation_count, observation_count_by_name) ==
    IF observation_count # NaN THEN observation_count ELSE observation_count_by_name

\* result_df.merge(obs_by_name, on='scientific_name', how='left'), then the two
\* combined columns, then the by_name columns dropped.
MergeObsByName(rows, groups) ==
    LET combined(r, count_by_name, data_by_name) ==
            [r EXCEPT !.observation_count =
                          CombineCount(r.observation_count, count_by_name),
                      !.biological_data_list =
                          combine_bio_data(r.biological_data_list, data_by_name)]
        joined(r) ==
            LET m == SetToSeq({g \in groups : g.scientific_name = r.scientific_name})
            IN  IF m = <<>> THEN <<combined(r, NaN, NaNList)>>
                ELSE [i \in 1..Len(m) |->
                        combined(r, m[i].observation_count_by_name,
                                 ListCell(m[i].biological_data_by_name))]
    IN  Concat([i \in 1..Len(rows) |-> joined(rows[i])])

\* Lines 144-218: the resolved rows with the observation columns.
MergeObservations(rows, observations, species_df) ==
    LET enriched == EnrichObservations(observations, species_df)
        by_key == MergeObsByKey(rows, obs_by_key(enriched))
    IN  IF obs_by_name(enriched) = {} THEN by_key
        ELSE MergeObsByName(by_key, obs_by_name(enriched))

\* classifications_coll.find({'confidence': {'$gte': min_confidence}})
FindClassifications(docs, t) == SelectSeq(docs, LAMBDA d : d.confidence >= t)

\* A DataFrame of resolved records; the observation columns exist only when the
\* observation snapshot is not empty.
EmptyDataFrame == [observation_columns |-> FALSE, rows |-> <<>>]

\* A document without a key has key NaN here; the DataFrame built from the found
\* documents has no 'key' column when none of them has the field, and
\* drop_duplicates(subset=['audio_file_id', 'key']) then raises KeyError.
KeyColumnMissing(species_docs, classification_docs, t) ==
    /\ species_docs # <<>>
    /\ FindClassifications(classification_docs, t) # <<>>
    /\ \A d \in Range(FindClassifications(classification_docs, t)) : d.key = NaN

\* Mutant of fetch_data_from_mongodb: no early return on an empty species collection.
fetch_data_without_species_guard(species_docs, species_filter, classification_docs, observation_docs, t) ==
    LET found == FindClassifications(classification_docs, t)
    IN  IF found = <<>>
        THEN {[species_df |-> species_docs, classifications_df |-> <<>>,
               df |-> EmptyDataFrame]}
        ELSE {[species_df |-> species_docs, classifications_df |-> c,
               df |-> IF observation_docs = <<>>
                      THEN [observation_columns |-> FALSE,
                            rows |-> ResolveSpecies(c, species_docs)]
                      ELSE [observation_columns |-> TRUE,
                            rows |-> MergeObservations(ResolveSpecies(c, species_docs),
                                                       observation_docs, species_docs)]]
              : c \in clean_classifications(found, t)}

\* What fetch_data_from_mongodb may return, with the filtered species and the
\* normalized classifications it resolved.
fetch_data_from_mongodb(species_docs, species_filter, classification_docs, observation_docs, t) ==
    LET found == FindClassifications(classification_docs, t)
        resolved(c, species_df) == ResolveSpecies(c, species_df)
    IN  IF species_docs = <<>>
        THEN {[species_df |-> <<>>, classifications_df |-> <<>>, df |-> EmptyDataFrame]}
        ELSE IF found = <<>>
        THEN {[species_df |-> f, classifications_df |-> <<>>, df |-> EmptyDataFrame]
              : f \in FilteredSpecies(species_docs, species_filter)}
        ELSE {[species_df |-> f, classifications_df |-> c,
               df |-> IF observation_docs = <<>>
                      THEN [observation_columns |-> FALSE, rows |-> resolved(c, f)]
                      ELSE [observation_columns |-> TRUE,
                            rows |-> MergeObservations(resolved(c, f), observation_docs,
                                                       f)]]
              : c \in clean_classifications(found, t),
                f \in FilteredSpecies(species_docs, species_filter)}

(***************************************************************************)
(* Biological Attribute Summarizer: extract_biological_summary.            *)
(* A biological_data map is a function from attribute names to scalars.    *)
(***************************************************************************)
Num(n) == [kind |-> "num", n |-> n, s |-> ""]
Str(s) == [kind |-> "str", n |-> 0, s |-> s]
PyNone == [kind |-> "none", n |-> 0, s |-> ""]

\* The texts float() parses, with their values; any other text raises ValueError.
FloatOfText == ("12" :> 12) @@ ("14" :> 14)

Parses(v) == v.kind = "num" \/ (v.kind = "str" /\ v.s \in DOMAIN FloatOfText)

\* float(v)
Float(v) == IF v.kind = "num" THEN v.n ELSE FloatOfText[v.s]

RECURSIVE SortedAsc(_)
SortedAsc(S) ==
    IF S = {} THEN <<>>
    ELSE LET m == CHOOSE x \in S : \A y \in S : x <= y
         IN  <<m>> \o SortedAsc(S \ {m})

\* bio_data_list of one key group: the rows' lists, NaN cells dropped.
GroupBioData(rows, key) ==
    Concat(Map(SelectSeq(rows, LAMBDA r : r.key = key /\ ~r.biological_data_list.na),
               LAMBDA r : r.biological_data_list.list))

all_properties(bio_data_list) == UNION {DOMAIN b : b \in Range(bio_data_list)}

\* [bio_data.get(prop_name) for bio_data in bio_data_list if prop_name in bio_data]
PropertyValues(bio_data_list, prop_name) ==
    Map(SelectSeq(bio_data_list, LAMBDA b : prop_name \in DOMAIN b),
        LAMBDA b : b[prop_name])

NotNone(values) == SelectSeq(values, LAMBDA v : v.kind # "none")

Occurrences(values, v) == Cardinality({i \in 1..Len(values) : values[i] = v})

\* Mutant of MostCommonOutcomes: any collected value, whatever its count.
AnyValueOutcomes(values) == Range(values)

\* max(set(values), key=values.count): any value of maximal count, by set order.
MostCommonOutcomes(values) ==
    {v \in Range(values) :
        \A w \in Range(values) : Occurrences(values, v) >= Occurrences(values, w)}

\* Mutant of ColumnKind: float(v) for every v, a null failing like a text.
ColumnKindNullsFail(values) ==
    IF \E i \in 1..Len(values) : values[i].kind = "none" \/ ~Parses(values[i])
    THEN "most_common"
    ELSE "avg"

\* The summary column a property yields: avg, most_common or none at all.
ColumnKind(values) ==
    IF \E i \in 1..Len(values) : values[i].kind # "none" /\ ~Parses(values[i])
    THEN "most_common"
    ELSE IF NotNone(values) # <<>> THEN "avg" ELSE "none"

\* Mutant of ColumnOutcomes: the mean's divisor one too large.
ColumnOutcomesAllValues(values) ==
    IF ColumnKind(values) = "avg"
    THEN {Num(RoundFloat(FloatSum(Map(NotNone(values), Float)), Len(values) + 1))}
    ELSE MostCommonOutcomes(values)

ColumnOutcomes(values) ==
    IF ColumnKind(values) = "avg"
    THEN {Num(FloatMean(Map(NotNone(values), Float)))}
    ELSE MostCommonOutcomes(values)

\* The summaries one key group may get: a function from columns to values.
SummaryOutcomes(bio_data_list) ==
    LET cols == {<<ColumnKind(PropertyValues(bio_data_list, p)), p>> :
                    p \in {q \in all_properties(bio_data_list) :
                              ColumnKind(PropertyValues(bio_data_list, q)) # "none"}}
        allowed(c) == ColumnOutcomes(PropertyValues(bio_data_list, c[2]))
    IN  {f \in [cols -> UNION {allowed(c) : c \in cols}] :
            \A c \in cols : f[c] \in allowed(c)}

\* Mutant of extract_biological_summary: no 'continue' for a group without data.
extract_biological_summary_every_key(rows) ==
    LET keys == SortedAsc({r.key : r \in Range(rows)})
        rowsOf(k) == {[key |-> k, summary |-> f] :
                         f \in SummaryOutcomes(GroupBioData(rows, k))}
    IN  {t \in [1..Len(keys) -> UNION {rowsOf(keys[i]) : i \in 1..Len(keys)}] :
            \A i \in 1..Len(keys) : t[i] \in rowsOf(keys[i])}

\* Mutant of extract_biological_summary: one summary row per record, not per key.
extract_biological_summary_per_row(rows) ==
    LET with_data == SelectSeq(rows, LAMBDA r : GroupBioData(rows, r.key) # <<>>)
        rowsOf(k) == {[key |-> k, summary |-> f] :
                         f \in SummaryOutcomes(GroupBioData(rows, k))}
    IN  {t \in [1..Len(with_data) ->
                   UNION {rowsOf(with_data[i].key) : i \in 1..Len(with_data)}] :
            \A i \in 1..Len(with_data) : t[i] \in rowsOf(with_data[i].key)}

\* The summary tables extract_biological_summary may return: one row per key
\* whose group holds biological data, in key order.
extract_biological_summary(rows) ==
    LET keys == SortedAsc({r.key : r \in {x \in Range(rows) :
                                             /\ x.key # NaN
                                             /\ GroupBioData(rows, x.key) # <<>>}})
        rowsOf(k) == {[key |-> k, summary |-> f] :
                         f \in SummaryOutcomes(GroupBioData(rows, k))}
    IN  {t \in [1..Len(keys) -> UNION {rowsOf(keys[i]) : i \in 1..Len(keys)}] :
            \A i \in 1..Len(keys) : t[i] \in rowsOf(keys[i])}

(***************************************************************************)
(* Statistics Aggregator: aggregate_statistics.                            *)
(***************************************************************************)
\* Mutant of SumSeq: 'first' in place of 'sum'.
SumSeqFirst(values) == IF values = <<>> THEN 0 ELSE Head(values)

\* 'sum' of a column.
RECURSIVE SumSeq(_)
SumSeq(values) == IF values = <<>> THEN 0 ELSE Head(values) + SumSeq(Tail(values))

MaxOf(values) == CHOOSE x \in Range(values) : \A y \in Range(values) : x >= y
MinOf(values) == CHOOSE x \in Range(values) : \A y \in Range(values) : x <= y

\* One row of df.groupby(['key', 'scientific_name']).agg(agg_dict).
GroupStatistics(df, key, scientific_name) ==
    LET group == SelectSeq(df.rows,
                     LAMBDA r : r.key = key /\ r.scientific_name = scientific_name)
        confidences == Map(group, ConfidenceOf)
    IN  [key |-> key, scientific_name |-> scientific_name,
         avg_confidence |-> FloatMean(confidences),
         max_confidence |-> MaxOf(confidences),
         min_confidence |-> MinOf(confidences),
         classification_count |-> Len(group),
         unique_audio_files |->
             Cardinality({r.audio_file_id : r \in Range(group)} \ {None}),
         total_observations |->
             IF df.observation_columns
             THEN SumSeq(Map(SelectSeq(group, LAMBDA r : r.observation_count # NaN),
                             LAMBDA r : r.observation_count))
             ELSE NaN,
         has_summary |-> FALSE, summary |-> <<>>]

\* Mutant of GroupKeys: groupby(..., dropna=False).
GroupKeysKeepMissing(rows) == {<<r.key, r.scientific_name>> : r \in Range(rows)}

\* groupby drops the rows whose key or scientific_name is missing.
GroupKeys(rows) ==
    {<<r.key, r.scientific_name>> :
        r \in {x \in Range(rows) : x.key # NaN /\ x.scientific_name # None}}

\* Mutant of MergeSummary: how='inner'.
MergeSummaryInner(stats, bio_data_summary) ==
    LET joined(r) ==
            LET m == SelectSeq(bio_data_summary, LAMBDA b : b.key = r.key)
            IN  [i \in 1..Len(m) |->
                    [r EXCEPT !.has_summary = TRUE, !.summary = m[i].summary]]
    IN  Concat([i \in 1..Len(stats) |-> joined(stats[i])])

\* stats_df.merge(bio_data_summary, on='key', how='left')
MergeSummary(stats, bio_data_summary) ==
    LET joined(r) ==
            LET m == SelectSeq(bio_data_summary, LAMBDA b : b.key = r.key)
            IN  IF m = <<>> THEN <<r>>
                ELSE [i \in 1..Len(m) |->
                        [r EXCEPT !.has_summary = TRUE, !.summary = m[i].summary]]
    IN  Concat([i \in 1..Len(stats) |-> joined(stats[i])])

\* Mutant of ClassificationCountOf: the sort key of ascending=True.
ClassificationCountAscending(r) == 0 - r.classification_count

\* sort_values('classification_count', ascending=False): the sort key.
ClassificationCountOf(r) == r.classification_count

\* The tables aggregate_statistics may return.
aggregate_statistics(df) ==
    IF df.rows = <<>> THEN {<<>>}
    ELSE LET groups == SetToSeq(GroupKeys(df.rows))
             stats == [i \in 1..Len(groups) |->
                          GroupStatistics(df, groups[i][1], groups[i][2])]
             merged == IF df.observation_columns
                       THEN {MergeSummary(stats, b) :
                                b \in extract_biological_summary(df.rows)}
                       ELSE {stats}
         IN  UNION {SortDescOutcomes(m, ClassificationCountOf) : m \in merged}

(***************************************************************************)
(* generate_report over the three collection snapshots.                    *)
(***************************************************************************)
VARIABLES
    species_docs,         \* species collection, columns renamed
    classification_docs,  \* classifications collection
    observation_docs,     \* observations collection
    min_confidence,       \* report.min_confidence
    species_filter,       \* report.species_filter (None when unset)
    report_config,        \* config['report']: the numeric settings (NaN when unset)
    species_df,           \* the species kept by the filter
    pc,                   \* position in generate_report
    classifications_df,   \* the normalized classifications fetch resolved
    df,                   \* the resolved records
    stats_df,             \* the statistics table
    report_saved,         \* whether the CSV report was written
    consumer,             \* consume_and_store_observations: topic, counters, collection
    scraper,              \* BirdSpeciesScraper: retry_attempts, the _fetch_page calls
    processor             \* process_audio_files: position, counters, collections

vars == <<species_docs, classification_docs, observation_docs, min_confidence,
          species_filter, report_config, species_df, pc, classifications_df, df, stats_df,
          report_saved, consumer, scraper, processor>>

\* The state of the pipeline's other steps, which generate_report leaves alone.
other_steps == <<consumer, scraper, processor>>

\* The other steps before they run.
IdleConsumer ==
    [messages |-> <<>>, position |-> 0, message_count |-> 0, stored_count |-> 0,
     observations |-> <<>>, insert_errors |-> {}, closed |-> FALSE]

IdleScraper ==
    [retry_attempts |-> 0, pages |-> 0, attempt |-> 0, responses |-> <<>>,
     sleeps |-> <<>>, calls |-> <<>>]

IdleProcessor ==
    [audio_files |-> 0, idx |-> 1, step |-> "upload", audio_file_id |-> 0,
     detected_birds |-> <<>>, audio_collection |-> <<>>,
     classification_collection |-> <<>>, uploaded_count |-> 0,
     classified_count |-> 0, failures |-> {}]

OtherStepsIdle ==
    consumer = IdleConsumer /\ scraper = IdleScraper /\ processor = IdleProcessor

snapshot == <<species_docs, classification_docs, observation_docs, min_confidence,
              species_filter, report_config>>


\* Mongo documents carry their _id: here the position in the collection.
WithIds(docs) == [i \in 1..Len(docs) |-> [_id |-> i] @@ docs[i]]

UniqueKeys(docs) == \A i, j \in 1..Len(docs) : docs[i].key = docs[j].key => i = j

SpeciesDoc(key, scientific_name, canonical_name) ==
    [key |-> key, scientific_name |-> scientific_name,
     canonical_name |-> canonical_name,
     family |-> "Paridae", order |-> "Passeriformes"]

SpeciesKeys == {10, 20}

\* GBIF scientific names may carry the authorship; the canonical name does not.
SpeciesPool ==
    {SpeciesDoc(k, n[1], n[2]) :
        k \in SpeciesKeys,
        n \in {<<"Parus major", None>>, <<"Parus major Linnaeus, 1758", "Parus major">>}}

\* The species collection has a unique index on key.
SpeciesSnapshots ==
    {s \in SeqsUpTo(SpeciesPool, Cardinality(SpeciesKeys)) : UniqueKeys(s)}

ClassificationPool(audio_ids, keys, confidences, names) ==
    {[audio_file_id |-> a, key |-> k, confidence |-> c, scientific_name |-> n] :
        a \in audio_ids, k \in keys, c \in confidences, n \in names}

ObservationPool(keys, bio) ==
    {[key |-> k, biological_data |-> b] : k \in keys, b \in bio}

\* Confidences and thresholds as floats.
Eighths(k) == k * (One \div 8)

\* report_config.get('min_confidence', 0.5)
GetMinConfidence(config) ==
    IF config.min_confidence = NaN THEN Eighths(4) ELSE config.min_confidence

BodySize(v) == [body_size_cm |-> v]
Habitat(v) == [habitat |-> v]

InitFrom(species, classifications, observations, thresholds) ==
    /\ species_docs \in species
    /\ classification_docs \in {WithIds(c) : c \in classifications}
    /\ observation_docs \in {WithIds(o) : o \in observations}
    /\ min_confidence \in thresholds
    /\ species_filter = None
    /\ report_config = [min_confidence |-> min_confidence, fuzzy_threshold |-> NaN]
    /\ OtherStepsIdle
    /\ species_df = <<>>
    /\ pc = "fetch"
    /\ classifications_df = <<>>
    /\ df = EmptyDataFrame
    /\ stats_df = <<>>
    /\ report_saved = FALSE

\* Resolution scenario: several classifications, names matched or missing.
Init ==
    InitFrom(SpeciesSnapshots,
             SeqsUpTo(ClassificationPool({"a1", "a2"}, {0, 10}, {Eighths(7)},
                                         {"Parus major", "Unknown", None}),
                      MaxClassifications),
             SeqsUpTo(ObservationPool({10}, {BodySize(Num(12))}), MaxObservations),
             {Eighths(4)})

\* Observation scenario: keys inside and outside the species snapshot.
InitObs ==
    InitFrom(SpeciesSnapshots,
             SeqsUpTo(ClassificationPool({"a1"}, {0, 10, 20}, {Eighths(3), Eighths(7)},
                                         {"Parus major", "Unknown"}),
                      MaxObsClassifications),
             SeqsUpTo(ObservationPool({0, 10, 20}, {BodySize(Num(12))}),
                      MaxObsObservations),
             {Eighths(4)})

\* Normalizer scenario: duplicate pairs around the threshold.
InitClean ==
    InitFrom({<<SpeciesDoc(10, "Parus major", None)>>},
             SeqsUpTo(ClassificationPool({"a1", "a2"}, {0, 10},
                                         {Eighths(3), Eighths(5), Eighths(7)},
                                         {"Parus major"}),
                      MaxConfClassifications),
             {<<>>},
             {Eighths(5)})

\* Confidence scenario: groups of up to three records around the threshold.
InitConf ==
    InitFrom({<<SpeciesDoc(10, "Parus major", None)>>},
             SeqsUpTo(ClassificationPool({"a1", "a2", "a3"}, {10},
                                         {Eighths(3), Eighths(5), Eighths(7)},
                                         {"Parus major"}),
                      MaxConfClassifications),
             {<<>>},
             {Eighths(5), Eighths(6)})

\* Biological-data scenario: numeric, textual and missing attribute values.
InitBio ==
    InitFrom({<<SpeciesDoc(10, "Parus major", None)>>},
             SeqsUpTo(ClassificationPool({"a1", "a2"}, {10}, {Eighths(7)},
                                         {"Parus major"}),
                      MaxObsClassifications),
             SeqsUpTo(ObservationPool({10},
                          {BodySize(Num(12)), BodySize(Num(14)), BodySize(Str("14")),
                           BodySize(Str("big")), BodySize(PyNone),
                           Habitat(Str("urban")), Habitat(Str("forest"))}),
                      MaxBioObservations),
             {Eighths(4)})

\* A species collection of Parus species and one other, keys in collection order.
FilterSpeciesPool ==
    <<SpeciesDoc(10, "Parus major", None), SpeciesDoc(20, "Parus minor", None),
      SpeciesDoc(30, "Parus ater", None), SpeciesDoc(40, "Parus caeruleus", None),
      SpeciesDoc(50, "Parus cristatus", None), SpeciesDoc(60, "Parus montanus", None),
      SpeciesDoc(70, "Ninox boobook", None)>>

Subsequences(pool) ==
    {SelectSeq(pool, LAMBDA d : d \in kept) : kept \in SUBSET Range(pool)}

\* Species-filter scenario: any part of the pool, with and without a filter term.
InitFilter ==
    /\ species_docs \in Subsequences(FilterSpeciesPool)
    /\ classification_docs \in
          {WithIds(c) :
              c \in SeqsUpTo(ClassificationPool({"a1"}, {10, 70}, {Eighths(7)},
                                                {"Parus major"}),
                             MaxFilterClassifications)}
    /\ observation_docs = <<>>
    /\ min_confidence = Eighths(4)
    /\ species_filter \in {None, "", "Parus"}
    /\ report_config = [min_confidence |-> min_confidence, fuzzy_threshold |-> NaN]
    /\ OtherStepsIdle
    /\ species_df = <<>>
    /\ pc = "fetch"
    /\ classifications_df = <<>>
    /\ df = EmptyDataFrame
    /\ stats_df = <<>>
    /\ report_saved = FALSE

\* Summary-merge scenario: a key outside the species snapshot keeps several
\* names; keys with and without observations.
InitMerge ==
    InitFrom({<<SpeciesDoc(10, "Parus major", None)>>},
             SeqsUpTo(ClassificationPool({"a1", "a2"}, {10, 20}, {Eighths(7)},
                                         {"Parus major", "Unknown"}),
                      MaxMergeClassifications),
             SeqsUpTo(ObservationPool({10, 20}, {BodySize(Num(12)), Habitat(Str("urban"))}),
                      MaxMergeObservations),
             {Eighths(4)})

\* Configuration scenario: min_confidence and fuzzy_threshold set or left out,
\* over species whose names score 100, 80 and 0 against the filter term.
InitConfig ==
    /\ species_docs \in
          Subsequences(<<SpeciesDoc(10, "Parus major", None),
                         SpeciesDoc(20, "Periparus ater", None),
                         SpeciesDoc(30, "Ninox boobook", None)>>)
    /\ classification_docs \in
          {WithIds(c) :
              c \in SeqsUpTo(ClassificationPool({"a1"}, {10, 20},
                                                {Eighths(3), Eighths(5)},
                                                {"Parus major"}),
                             MaxConfigClassifications)}
    /\ observation_docs = <<>>
    /\ report_config \in [min_confidence : {NaN, Eighths(2), Eighths(4)},
                          fuzzy_threshold : {NaN, FuzzyThreshold, 90}]
    /\ min_confidence = GetMinConfidence(report_config)
    /\ OtherStepsIdle
    /\ species_filter \in {None, "Parus"}
    /\ species_df = <<>>
    /\ pc = "fetch"
    /\ classifications_df = <<>>
    /\ df = EmptyDataFrame
    /\ stats_df = <<>>
    /\ report_saved = FALSE

\* Name-fallback scenario: reported names that match by scientific or canonical
\* name, 'Unknown', empty and missing names, keys inside and outside the snapshot.
InitFallback ==
    InitFrom(SpeciesSnapshots,
             SeqsUpTo(ClassificationPool({"a1"}, {0, 10}, {Eighths(7)},
                                         {"Parus major", "Unknown", "", None}),
                      MaxFallbackClassifications),
             {<<>>},
             {Eighths(4)})

\* Audio-file scenario: several records of one audio file and key, and records
\* without an audio_file_id.
InitAudio ==
    InitFrom({<<SpeciesDoc(10, "Parus major", None)>>},
             SeqsUpTo(ClassificationPool({"a1", "a2", None}, {0, 10}, {Eighths(7)},
                                         {"Parus major"}),
                      MaxAudioClassifications),
             {<<>>},
             {Eighths(4)})

\* Excluded-species scenario: classifications of a species the filter term
\* excludes, reported under its name, under a kept species' canonical name, or
\* without a name.
InitExcluded ==
    /\ species_docs \in
          Subsequences(<<SpeciesDoc(10, "Parus major Linnaeus, 1758", "Parus major"),
                         SpeciesDoc(70, "Ninox boobook", None)>>)
    /\ classification_docs \in
          {WithIds(c) :
              c \in SeqsUpTo(ClassificationPool({"a1", "a2"}, {10, 70}, {Eighths(7)},
                                                {"Ninox boobook", "Parus major", None}),
                             MaxExcludedClassifications)}
    /\ observation_docs = <<>>
    /\ min_confidence = Eighths(4)
    /\ species_filter \in {None, "Parus"}
    /\ report_config = [min_confidence |-> min_confidence, fuzzy_threshold |-> NaN]
    /\ OtherStepsIdle
    /\ species_df = <<>>
    /\ pc = "fetch"
    /\ classifications_df = <<>>
    /\ df = EmptyDataFrame
    /\ stats_df = <<>>
    /\ report_saved = FALSE

\* Missing-field scenario: documents without a key or without a confidence (NaN).
InitMissing ==
    InitFrom({<<SpeciesDoc(10, "Parus major", None)>>},
             SeqsUpTo(ClassificationPool({"a1", "a2"}, {NaN, 0, 10},
                                         {NaN, Eighths(7)}, {"Parus major"}),
                      MaxMissingClassifications),
             SeqsUpTo(ObservationPool({10}, {BodySize(Num(12))}), MaxObservations),
             {0, Eighths(4)})

\* df = fetch_data_from_mongodb(...); if df.empty: return
FetchData ==
    /\ pc = "fetch"
    /\ IF KeyColumnMissing(species_docs, classification_docs, min_confidence)
       THEN /\ pc' = "error"
            /\ UNCHANGED <<species_df, classifications_df, df>>
       ELSE \E r \in fetch_data_from_mongodb(species_docs, species_filter,
                                             classification_docs, observation_docs,
                                             min_confidence) :
               /\ species_df' = r.species_df
               /\ classifications_df' = r.classifications_df
               /\ df' = r.df
               /\ pc' = IF r.df.rows = <<>> THEN "done" ELSE "clean"
    /\ UNCHANGED <<snapshot, stats_df, report_saved, other_steps>>

\* df = DataCleaner.clean_classifications(df.to_dict('records'), min_confidence)
CleanData ==
    /\ pc = "clean"
    /\ \E rows \in clean_classifications(df.rows, min_confidence) :
          df' = [df EXCEPT !.rows = rows]
    /\ pc' = "aggregate"
    /\ UNCHANGED <<snapshot, species_df, classifications_df, stats_df, report_saved,
                   other_steps>>

\* stats_df = aggregate_statistics(df); if stats_df.empty: return; to_csv
AggregateStatistics ==
    /\ pc = "aggregate"
    /\ \E stats \in aggregate_statistics(df) :
          /\ stats_df' = stats
          /\ report_saved' = (stats # <<>>)
    /\ pc' = "done"
    /\ UNCHANGED <<snapshot, species_df, classifications_df, df, other_steps>>

Next == FetchData \/ CleanData \/ AggregateStatistics

Spec == Init /\ [][Next]_vars
SpecObs == InitObs /\ [][Next]_vars
SpecClean == InitClean /\ [][Next]_vars
SpecConf == InitConf /\ [][Next]_vars
SpecBio == InitBio /\ [][Next]_vars
SpecFilter == InitFilter /\ [][Next]_vars
SpecMissing == InitMissing /\ [][Next]_vars
SpecMerge == InitMerge /\ [][Next]_vars
SpecConfig == InitConfig /\ [][Next]_vars
SpecFallback == InitFallback /\ [][Next]_vars
SpecAudio == InitAudio /\ [][Next]_vars
SpecExcluded == InitExcluded /\ [][Next]_vars

(***************************************************************************)
(* consume_kafka: consume_and_store_observations.                          *)
(* A message field is a scalar, or Missing when the message lacks it.      *)
(***************************************************************************)
Missing == [kind |-> "missing", n |-> 0, s |-> ""]

\* message.get(field, 0.0)
GetOrZero(v) == IF v = Missing THEN Num(0) ELSE v

\* The parameters of Observation.__init__ and those without a default.
ObservationParameters ==
    {"key", "latitude", "longitude", "timestamp", "biological_data", "source"}
ObservationRequired == {"key", "latitude", "longitude"}

\* The keyword arguments parse_observation_message passes to Observation(...).
ParseKeywords ==
    {"taxonomy_id", "latitude", "longitude", "timestamp", "biological_data", "source"}

\* A call of Observation(**keywords): TypeError for an unexpected keyword or a
\* missing required argument.
ObservationCall(keywords, latitude, longitude) ==
    IF keywords \subseteq ObservationParameters /\ ObservationRequired \subseteq keywords
    THEN [raised |-> FALSE, latitude |-> latitude, longitude |-> longitude]
    ELSE [raised |-> TRUE, latitude |-> 0, longitude |-> 0]

\* parse_observation_message: float() of the two coordinates (ValueError or
\* TypeError when one does not parse), then the Observation call.
parse_observation_message(message) ==
    LET latitude == GetOrZero(message.latitude)
        longitude == GetOrZero(message.longitude)
    IN  IF ~Parses(latitude) \/ ~Parses(longitude)
        THEN [raised |-> TRUE, latitude |-> 0, longitude |-> 0]
        ELSE ObservationCall(ParseKeywords, Float(latitude), Float(longitude))

\* generate_report before it runs.
ReportNotRun ==
    /\ species_docs = <<>>
    /\ classification_docs = <<>>
    /\ observation_docs = <<>>
    /\ min_confidence = Eighths(4)
    /\ species_filter = None
    /\ report_config = [min_confidence |-> min_confidence, fuzzy_threshold |-> NaN]
    /\ species_df = <<>>
    /\ pc = "fetch"
    /\ classifications_df = <<>>
    /\ df = EmptyDataFrame
    /\ stats_df = <<>>
    /\ report_saved = FALSE

report_vars == <<snapshot, species_df, pc, classifications_df, df, stats_df, report_saved>>

MessagePool ==
    {[latitude |-> la, longitude |-> lo] :
        la \in {Num(12), Str("big"), Missing}, lo \in {Num(14), PyNone}}

\* Kafka scenario: a topic of messages with numeric, textual, null and missing
\* coordinates.
InitKafka ==
    /\ ReportNotRun
    /\ consumer \in {[IdleConsumer EXCEPT !.messages = m] :
                         m \in SeqsUpTo(MessagePool, MaxMessages)}
    /\ scraper = IdleScraper
    /\ processor = IdleProcessor

\* One iteration of 'for message in consumer': count, parse, insert_one; any
\* exception of the two skips the message.
ConsumeMessage ==
    /\ ~consumer.closed
    /\ consumer.position < Len(consumer.messages)
    /\ LET position == consumer.position + 1
           observation == parse_observation_message(consumer.messages[position])
           counted == [consumer EXCEPT !.position = position,
                                       !.message_count = @ + 1]
       IN  IF observation.raised THEN consumer' = counted
           ELSE \/ consumer' =
                      [counted EXCEPT !.observations =
                                          Append(@, [latitude |-> observation.latitude,
                                                     longitude |-> observation.longitude,
                                                     message |-> position]),
                                      !.stored_count = @ + 1]
                \/ consumer' = [counted EXCEPT !.insert_errors = @ \cup {position}]
    /\ UNCHANGED <<report_vars, scraper, processor>>

\* The consumer's iterator raises: the outer except, then finally.
ConsumerError ==
    /\ ~consumer.closed
    /\ consumer.position < Len(consumer.messages)
    /\ consumer' = [consumer EXCEPT !.closed = TRUE]
    /\ UNCHANGED <<report_vars, scraper, processor>>

\* No message left before the consumer's timeout: finally, consumer.close().
CloseConsumer ==
    /\ ~consumer.closed
    /\ consumer.position = Len(consumer.messages)
    /\ consumer' = [consumer EXCEPT !.closed = TRUE]
    /\ UNCHANGED <<report_vars, scraper, processor>>

NextKafka == ConsumeMessage \/ ConsumerError \/ CloseConsumer

SpecKafka == InitKafka /\ [][NextKafka]_vars

(***************************************************************************)
(* scraper: BirdSpeciesScraper._fetch_page, called once per page.          *)
(***************************************************************************)
\* Mutant of Backoff: 2 ** (attempt + 1).
BackoffDoubled(attempt) == Pow2(attempt + 1)

\* 2 ** attempt
Backoff(attempt) == Pow2(attempt)

\* The record of a _fetch_page call that returned: the responses of its
\* requests, its sleeps, and what it returned.
FinishedCall(responses, sleeps, result) ==
    [responses |-> responses, sleeps |-> sleeps, result |-> result]

\* The next call starts with attempt 0.
Returned(s, responses, result) ==
    [s EXCEPT !.calls = Append(@, FinishedCall(responses, s.sleeps, result)),
              !.attempt = 0, !.responses = <<>>, !.sleeps = <<>>]

\* Scraper scenario: retry_attempts from 0 up, one to MaxPages pages to fetch.
InitScraper ==
    /\ ReportNotRun
    /\ consumer = IdleConsumer
    /\ scraper \in {[IdleScraper EXCEPT !.retry_attempts = n, !.pages = p] :
                        n \in 0..MaxRetryAttempts, p \in 1..MaxPages}
    /\ processor = IdleProcessor

Fetching == Len(scraper.calls) < scraper.pages

\* session.get and raise_for_status succeed: the parsed page is returned.
RequestSucceeds ==
    /\ Fetching
    /\ scraper.attempt < scraper.retry_attempts
    /\ scraper' = Returned(scraper, Append(scraper.responses, "ok"), "page")
    /\ UNCHANGED <<report_vars, consumer, processor>>

\* requests.RequestException: sleep and go on, or give up after the last attempt.
RequestFails ==
    /\ Fetching
    /\ scraper.attempt < scraper.retry_attempts
    /\ scraper' =
          IF scraper.attempt < scraper.retry_attempts - 1
          THEN [scraper EXCEPT !.responses = Append(@, "error"),
                               !.sleeps = Append(@, Backoff(scraper.attempt)),
                               !.attempt = @ + 1]
          ELSE Returned(scraper, Append(scraper.responses, "error"), "None")
    /\ UNCHANGED <<report_vars, consumer, processor>>

\* range(0) is empty: the loop body never runs and the final 'return None' does.
NoAttempt ==
    /\ Fetching
    /\ scraper.retry_attempts = 0
    /\ scraper' = Returned(scraper, <<>>, "None")
    /\ UNCHANGED <<report_vars, consumer, processor>>

NextScraper == RequestSucceeds \/ RequestFails \/ NoAttempt

SpecScraper == InitScraper /\ [][NextScraper]_vars

(***************************************************************************)
(* process_audio: process_audio_files, one audio file after the other.     *)
(* A record of either collection carries the file it was made for and its   *)
(* place in the order of all inserts.                                       *)
(***************************************************************************)
\* Mutant of NextFile: 'break' in place of 'continue'.
StopProcessing(p) ==
    [p EXCEPT !.idx = p.audio_files + 1, !.step = "upload", !.audio_file_id = 0,
              !.detected_birds = <<>>]

\* 'continue', or the end of the loop body: on to the next file.
NextFile(p) ==
    [p EXCEPT !.idx = @ + 1, !.step = "upload", !.audio_file_id = 0,
              !.detected_birds = <<>>]

\* except Exception (or a failed classification): the file is given up.
FileFailed(p, stage) ==
    NextFile([p EXCEPT !.failures = @ \cup {[file |-> p.idx, stage |-> stage]}])

Inserts(p) == Len(p.audio_collection) + Len(p.classification_collection)

\* Audio scenario: one to MaxFiles files found in the source directory.
InitProcessor ==
    /\ ReportNotRun
    /\ consumer = IdleConsumer
    /\ scraper = IdleScraper
    /\ processor \in {[IdleProcessor EXCEPT !.audio_files = n] : n \in 1..MaxFiles}

Processing(step) == processor.idx <= processor.audio_files /\ processor.step = step

\* extract_location_from_path, upload_audio_to_minio or stat() raises.
UploadFails ==
    /\ Processing("upload")
    /\ processor' = FileFailed(processor, "upload")
    /\ UNCHANGED <<report_vars, consumer, scraper>>

\* audio_collection.insert_one raises after the upload.
AudioInsertFails ==
    /\ Processing("upload")
    /\ processor' = FileFailed(processor, "audio_insert")
    /\ UNCHANGED <<report_vars, consumer, scraper>>

\* The upload and the insert succeed: audio_file_id, uploaded_count += 1.
AudioInserted ==
    /\ Processing("upload")
    /\ LET inserted_id == Len(processor.audio_collection) + 1
       IN  processor' =
               [processor EXCEPT !.audio_collection =
                                     Append(@, [_id |-> inserted_id,
                                                file |-> processor.idx,
                                                order |-> Inserts(processor) + 1]),
                                 !.audio_file_id = inserted_id,
                                 !.uploaded_count = @ + 1,
                                 !.step = "classify"]
    /\ UNCHANGED <<report_vars, consumer, scraper>>

\* classify_audio returns None (any exception of the request), or an empty
\* response: 'Classification failed', continue.
ClassifyFails ==
    /\ Processing("classify")
    /\ processor' = FileFailed(processor, "api")
    /\ UNCHANGED <<report_vars, consumer, scraper>>

\* store_api_log raises.
LogFails ==
    /\ Processing("classify")
    /\ processor' = FileFailed(processor, "log")
    /\ UNCHANGED <<report_vars, consumer, scraper>>

\* The API answers and the log is stored: the detections ("ok", or "bad" when
\* float(confidence) raises); none detected: continue.
Classified ==
    /\ Processing("classify")
    /\ \E detected_birds \in SeqsUpTo({"ok", "bad"}, MaxDetections) :
          processor' =
              IF detected_birds = <<>> THEN NextFile(processor)
              ELSE [processor EXCEPT !.detected_birds = detected_birds,
                                     !.step = "store"]
    /\ UNCHANGED <<report_vars, consumer, scraper>>

\* One detection: the values are read, the species looked up and the
\* classification inserted, classified_count += 1; after the last one the loop
\* body ends.
StoreClassification ==
    /\ Processing("store")
    /\ Head(processor.detected_birds) = "ok"
    /\ LET stored ==
               [processor EXCEPT
                    !.classification_collection =
                        Append(@, [audio_file_id |-> processor.audio_file_id,
                                   file |-> processor.idx,
                                   order |-> Inserts(processor) + 1]),
                    !.classified_count = @ + 1,
                    !.detected_birds = Tail(@)]
       IN  processor' = IF stored.detected_birds = <<>> THEN NextFile(stored)
                        ELSE stored
    /\ UNCHANGED <<report_vars, consumer, scraper>>

\* float(confidence), find_one or insert_one raises for a detection.
DetectionFails ==
    /\ Processing("store")
    /\ processor' = FileFailed(processor,
                               IF Head(processor.detected_birds) = "bad"
                               THEN "detection" ELSE "classification_insert")
    /\ UNCHANGED <<report_vars, consumer, scraper>>

NextProcessor ==
    \/ UploadFails \/ AudioInsertFails \/ AudioInserted
    \/ ClassifyFails \/ LogFails \/ Classified
    \/ StoreClassification \/ DetectionFails

SpecProcessor == InitProcessor /\ [][NextProcessor]_vars

(***************************************************************************)
(* Properties.                                                             *)
(***************************************************************************)
\* The species of the snapshot that a reported name matches exactly.
NameMatches(name) ==
    {i \in 1..Len(species_docs) :
        /\ name # None
        /\ species_docs[i].scientific_name = name \/ species_docs[i].canonical_name = name}

KeyInSpecies(key) == \E i \in 1..Len(species_docs) : species_docs[i].key = key

\* A classification that neither its key nor its reported name resolves.
Unresolvable(c) == ~KeyInSpecies(c.key) /\ NameMatches(c.scientific_name) = {}

\* C1: fetch_data_from_mongodb returns exactly one resolved record per normalized
\* classification record, after the key join, the name fallback and both
\* observation merges; an unresolvable classification is still present, with
\* null species metadata.
C1_LeftOuterJoin ==
    pc = "clean" =>
        /\ Len(df.rows) = Len(classifications_df)
        /\ \A i \in 1..Len(classifications_df) :
              /\ Cardinality({j \in 1..Len(df.rows) :
                                 df.rows[j]._id = classifications_df[i]._id}) = 1
              /\ df.rows[i]._id = classifications_df[i]._id
              /\ df.rows[i].audio_file_id = classifications_df[i].audio_file_id
              /\ df.rows[i].key = classifications_df[i].key
              /\ df.rows[i].confidence = classifications_df[i].confidence
              /\ Unresolvable(classifications_df[i]) =>
                    /\ df.rows[i].scientific_name = classifications_df[i].scientific_name
                    /\ df.rows[i].family = None /\ df.rows[i].order = None
                    /\ df.rows[i].canonical_name = None
                    /\ df.rows[i].key_species = NaN

\* Two records fetched, one of them unresolvable, with observations merged.
C1_Witness ==
    /\ pc = "clean"
    /\ Len(df.rows) = 2
    /\ df.observation_columns
    /\ \E i \in 1..2 : Unresolvable(classifications_df[i])
    /\ \E i \in 1..2 : df.rows[i].observation_count # NaN

\* C2: a classification not resolved by key whose reported name equals a species'
\* scientific_name or canonical_name gets that species' key, family and order.
C2_NameFallbackAssignsIdentity ==
    pc = "clean" =>
        \A i \in 1..Len(classifications_df) :
            LET c == classifications_df[i]
            IN  (~KeyInSpecies(c.key) /\ NameMatches(c.scientific_name) # {}) =>
                    \E m \in NameMatches(c.scientific_name) :
                        /\ df.rows[i].key = species_docs[m].key
                        /\ df.rows[i].family = species_docs[m].family
                        /\ df.rows[i].order = species_docs[m].order

\* What clean_classifications(X, t) must return: the best record of every pair
\* that has a record at or above t, once, and nothing else.
SamePair(a, b) == a.audio_file_id = b.audio_file_id /\ a.key = b.key

Normalized(out, X, t) ==
    /\ \A i \in 1..Len(out) :
          /\ out[i] \in Range(X)
          /\ out[i].confidence >= t
          /\ \A x \in Range(X) : SamePair(x, out[i]) => x.confidence <= out[i].confidence
          /\ \A j \in 1..Len(out) : SamePair(out[i], out[j]) => i = j
    /\ \A x \in Range(X) : x.confidence >= t => \E i \in 1..Len(out) : SamePair(x, out[i])

\* C3: clean_classifications returns, for each (audio_file_id, key) pair with a
\* record of confidence >= t, exactly one record of the pair, of maximal
\* confidence, and nothing else.
C3_NormalizationResult ==
    /\ \A out \in clean_classifications(classification_docs, min_confidence) :
          Normalized(out, classification_docs, min_confidence)
    /\ pc = "clean" => Normalized(classifications_df, classification_docs, min_confidence)

\* A pair with two records, one of them at the threshold, and a record below it.
C3_Witness ==
    /\ pc = "clean"
    /\ \E x, y \in Range(classification_docs) :
          SamePair(x, y) /\ x.confidence > y.confidence /\ y.confidence = min_confidence
    /\ \E x \in Range(classification_docs) : x.confidence < min_confidence
    /\ Len(classifications_df) = 1

\* The observations of key k > 0 (the key-aggregate of k), in snapshot order.
KeyAggregate(k) == SelectSeq(observation_docs, LAMBDA o : o.key = k /\ k > 0)

\* The observations whose key the species snapshot maps to name n.
NameAggregate(n) ==
    SelectSeq(observation_docs,
              LAMBDA o : n # None /\ \E i \in 1..Len(species_docs) :
                            species_docs[i].key = o.key
                            /\ species_docs[i].scientific_name = n)

\* C4: observation_count is the key-aggregate count of the record's key when
\* that aggregate exists, otherwise the name-aggregate count of its
\* scientific_name when that exists, otherwise absent; never a combination.
C4_SingleAggregationPath ==
    pc = "clean" =>
        \A i \in 1..Len(df.rows) :
            LET r == df.rows[i]
            IN  r.observation_count =
                    IF KeyAggregate(r.key) # <<>> THEN Len(KeyAggregate(r.key))
                    ELSE IF NameAggregate(r.scientific_name) # <<>>
                         THEN Len(NameAggregate(r.scientific_name))
                         ELSE NaN

\* A record with both aggregates, made of different observations.
C4_Witness ==
    /\ pc = "clean"
    /\ \E i \in 1..Len(df.rows) :
          /\ KeyAggregate(df.rows[i].key) # <<>>
          /\ NameAggregate(df.rows[i].scientific_name) # <<>>
          /\ KeyAggregate(df.rows[i].key) # NameAggregate(df.rows[i].scientific_name)
          /\ df.rows[i].observation_count = 1

\* C5: a record without key-aggregate whose scientific_name has a name-aggregate
\* carries that aggregate's list of biological_data maps.
C5_BiologicalDataFallback ==
    pc = "clean" =>
        \A i \in 1..Len(df.rows) :
            LET r == df.rows[i]
            IN  (KeyAggregate(r.key) = <<>> /\ NameAggregate(r.scientific_name) # <<>>) =>
                    r.biological_data_list =
                        ListCell(Map(NameAggregate(r.scientific_name), BiologicalDataOf))

\* The observations matched to the species of an output row, by key or by name.
MatchedObservations(row) ==
    {i \in 1..Len(observation_docs) :
        \/ observation_docs[i] \in Range(KeyAggregate(row.key))
        \/ observation_docs[i] \in Range(NameAggregate(row.scientific_name))}

\* C6: total_observations never exceeds the number of observation records
\* matched to the row's species.
C6_NoDoubleCounting ==
    pc = "done" =>
        \A i \in 1..Len(stats_df) :
            stats_df[i].total_observations <= Cardinality(MatchedObservations(stats_df[i]))

\* C7: no two rows of the statistics table share (key, scientific_name).
C7_OutputUniqueness ==
    pc = "done" =>
        \A i, j \in 1..Len(stats_df) :
            (stats_df[i].key = stats_df[j].key
             /\ stats_df[i].scientific_name = stats_df[j].scientific_name) => i = j

\* Two rows of one key, both with the key's biological summary merged in.
C7_Witness ==
    /\ pc = "done"
    /\ \E i, j \in 1..Len(stats_df) :
          /\ i # j
          /\ stats_df[i].key = stats_df[j].key
          /\ stats_df[i].has_summary /\ stats_df[j].has_summary

\* C8: the classification_count values add up to the number of normalized
\* resolved records whose key and scientific_name are both present.
C8_CountConservation ==
    pc = "done" =>
        SumSeq(Map(stats_df, ClassificationCountOf)) =
            Cardinality({i \in 1..Len(df.rows) :
                            df.rows[i].key # NaN /\ df.rows[i].scientific_name # None})

\* A counted record beside one that has no name.
C8_Witness ==
    /\ pc = "done"
    /\ Len(stats_df) = 1
    /\ Len(df.rows) = 2
    /\ \E i \in 1..2 : df.rows[i].scientific_name = None

\* C9 as claimed: t <= min_confidence <= avg_confidence <= max_confidence <= 1.0.
C9_ConfidenceBounds ==
    pc = "done" =>
        \A i \in 1..Len(stats_df) :
            /\ min_confidence <= stats_df[i].min_confidence
            /\ stats_df[i].min_confidence <= stats_df[i].avg_confidence
            /\ stats_df[i].avg_confidence <= stats_df[i].max_confidence
            /\ stats_df[i].max_confidence <= One

\* C9 (amended): t <= min_confidence <= max_confidence <= 1.0 and
\* avg_confidence <= 1.0; avg_confidence is a float mean of n records, so it lies
\* in [min_confidence, max_confidence] only up to its rounding error:
\* min_confidence * (1 - n * 2^-p) <= avg_confidence and
\* avg_confidence * (1 - n * 2^-p) <= max_confidence, p the significand width.
C9_ConfidenceBoundsRounded ==
    pc = "done" =>
        \A i \in 1..Len(stats_df) :
            LET r == stats_df[i]
                n == r.classification_count
                p == Pow2(SignificandBits)
            IN  /\ min_confidence <= r.min_confidence
                /\ r.min_confidence <= r.max_confidence
                /\ r.max_confidence <= One
                /\ r.avg_confidence <= One
                /\ r.min_confidence * (p - n) <= r.avg_confidence * p
                /\ r.avg_confidence * (p - n) <= r.max_confidence * p

\* A group of three records whose float mean falls below its smallest confidence.
C9_Witness ==
    /\ pc = "done"
    /\ \E i \in 1..Len(stats_df) :
          /\ stats_df[i].classification_count = 3
          /\ stats_df[i].avg_confidence < stats_df[i].min_confidence

\* The values an attribute takes over all biological_data maps of a key.
CollectedValues(key, attribute) ==
    LET maps == Concat([i \in 1..Len(df.rows) |->
                    IF df.rows[i].key = key /\ ~df.rows[i].biological_data_list.na
                    THEN df.rows[i].biological_data_list.list ELSE <<>>])
    IN  [i \in 1..Len(SelectSeq(maps, LAMBDA b : attribute \in DOMAIN b)) |->
            SelectSeq(maps, LAMBDA b : attribute \in DOMAIN b)[i][attribute]]

Attributes == {"body_size_cm", "habitat"}

MaximalCount(values, v) ==
    /\ v \in Range(values)
    /\ \A w \in Range(values) : Occurrences(values, v) >= Occurrences(values, w)

\* The summary of row r holds most_common_<a>, a raw value of maximal count, and
\* no avg_<a>.
EmitsMostCommon(r, a, values) ==
    /\ r.has_summary
    /\ <<"most_common", a>> \in DOMAIN r.summary
    /\ <<"avg", a>> \notin DOMAIN r.summary
    /\ MaximalCount(values, r.summary[<<"most_common", a>>])

\* C11 as claimed: when at least one collected value of an attribute fails to
\* parse as a number, the summary holds most_common_<attribute>, a raw collected
\* value of maximal occurrence count, and no avg_<attribute>.
C11_CategoricalAttributeSummary ==
    pc = "done" =>
        \A i \in 1..Len(stats_df) : \A a \in Attributes :
            LET values == CollectedValues(stats_df[i].key, a)
            IN  (\E j \in 1..Len(values) : ~Parses(values[j])) =>
                    EmitsMostCommon(stats_df[i], a, values)

\* C11 (amended): null values are not parsed.  When at least one non-null
\* collected value fails to parse, the summary holds most_common_<attribute>, a
\* raw collected value (null included) of maximal count, and no avg_<attribute>
\* (urban, urban, forest give urban); when every non-null value parses, a null
\* beside them does not make the attribute categorical; when all collected values
\* are null, the attribute gets no summary field.
C11_CategoricalAttributeSummaryNonNull ==
    pc = "done" =>
        \A i \in 1..Len(stats_df) : \A a \in Attributes :
            LET values == CollectedValues(stats_df[i].key, a)
                r == stats_df[i]
                fails == \E j \in 1..Len(values) :
                            values[j] # PyNone /\ ~Parses(values[j])
            IN  /\ fails => EmitsMostCommon(r, a, values)
                /\ (fails /\ values = <<Str("urban"), Str("urban"), Str("forest")>>) =>
                       r.summary[<<"most_common", a>>] = Str("urban")
                /\ (values # <<>> /\ ~fails /\ r.has_summary) =>
                       /\ <<"most_common", a>> \notin DOMAIN r.summary
                       /\ <<"avg", a>> \in DOMAIN r.summary <=> NotNone(values) # <<>>

\* habitat urban, urban, forest summarized as urban.
C11_Witness ==
    /\ pc = "done"
    /\ \E i \in 1..Len(stats_df) :
          /\ CollectedValues(stats_df[i].key, "habitat") =
                 <<Str("urban"), Str("urban"), Str("forest")>>
          /\ stats_df[i].summary[<<"most_common", "habitat">>] = Str("urban")

\* The keys of the resolved records that carry a non-empty biological_data_list.
KeysWithBiologicalData ==
    {df.rows[i].key : i \in {j \in 1..Len(df.rows) :
        ~df.rows[j].biological_data_list.na /\ df.rows[j].biological_data_list.list # <<>>}}

\* C12: the biological summary has a row for a key if and only if some resolved
\* record of that key carries a non-empty biological_data_list (one row per such
\* key), so a statistics row gets a summary exactly when its key is such a key.
C12_OmissionWithoutBiologicalData ==
    (pc = "done" /\ df.observation_columns) =>
        /\ \A t \in extract_biological_summary(df.rows) :
              /\ {t[i].key : i \in 1..Len(t)} = KeysWithBiologicalData
              /\ Len(t) = Cardinality(KeysWithBiologicalData)
        /\ \A i \in 1..Len(stats_df) :
              stats_df[i].has_summary <=> stats_df[i].key \in KeysWithBiologicalData

\* A species with a summary beside one whose key no observation contributed to.
C12_Witness ==
    /\ pc = "done"
    /\ df.observation_columns
    /\ \E i, j \in 1..Len(stats_df) :
          /\ stats_df[i].has_summary
          /\ ~stats_df[j].has_summary
          /\ stats_df[j].total_observations = 0

\* The species-sourced name of a classification: that of the species with its key,
\* else that of the first species its reported name matches; None when unresolved.
SpeciesSourcedName(c) ==
    IF KeyInSpecies(c.key)
    THEN species_docs[CHOOSE i \in 1..Len(species_docs) :
                          species_docs[i].key = c.key].scientific_name
    ELSE IF c.scientific_name # "Unknown" /\ NameMatches(c.scientific_name) # {}
         THEN species_docs[CHOOSE i \in NameMatches(c.scientific_name) :
                  \A j \in NameMatches(c.scientific_name) : i <= j].scientific_name
         ELSE None

\* C13: the final scientific_name of a resolved record is the species-sourced
\* name when resolution succeeded (by key, or by name fallback through
\* scientific_name or canonical_name), otherwise the classifier-reported name
\* unchanged, the literal 'Unknown' included.
C13_NameSelection ==
    pc = "clean" =>
        \A i \in 1..Len(classifications_df) :
            LET c == classifications_df[i]
            IN  df.rows[i].scientific_name =
                    IF SpeciesSourcedName(c) # None THEN SpeciesSourcedName(c)
                    ELSE c.scientific_name

\* A record renamed through a canonical_name match beside an 'Unknown' one kept.
C13_Witness ==
    /\ pc = "clean"
    /\ \E i, j \in 1..Len(classifications_df) :
          /\ ~KeyInSpecies(classifications_df[i].key)
          /\ classifications_df[i].scientific_name = "Parus major"
          /\ df.rows[i].scientific_name = "Parus major Linnaeus, 1758"
          /\ classifications_df[j].scientific_name = "Unknown"
          /\ df.rows[j].scientific_name = "Unknown"

\* Tables a and b hold exactly the same records.
SameRecords(a, b) == Len(a) = Len(b) /\ Range(a) = Range(b)

IdOf(r) == r._id

\* C14: normalizing a normalized list again keeps exactly the same records, and
\* the second pass generate_report runs over the resolved records removes none.
C14_NormalizerIdempotence ==
    /\ pc = "fetch" =>
          \A once \in clean_classifications(classification_docs, min_confidence) :
              \A twice \in clean_classifications(once, min_confidence) :
                  SameRecords(twice, once)
    /\ pc \in {"aggregate", "done"} =>
          SameRecords(Map(df.rows, IdOf), Map(classifications_df, IdOf))

\* The second pass run over records that the first pass deduplicated, two of
\* them tied on confidence.
C14_Witness ==
    /\ pc = "aggregate"
    /\ \E i, j \in 1..Len(classification_docs) :
          /\ i # j
          /\ SamePair(classification_docs[i], classification_docs[j])
          /\ classification_docs[i].confidence >= min_confidence
          /\ classification_docs[j].confidence >= min_confidence
    /\ \E i, j \in 1..Len(df.rows) :
          i # j /\ df.rows[i].confidence = df.rows[j].confidence

\* The names of a list whose score against the filter term meets the cutoff.
NamesMeetingCutoff(species_list, filter_term, threshold) ==
    {n \in Range(species_list) : partial_ratio(filter_term, n) >= threshold}

\* C15: for a non-empty filter term filter_species_fuzzy returns exactly the names
\* whose score meets the cutoff, however many they are, and the pipeline's
\* species_filter keeps exactly the species of those names.
C15_FuzzyFilterCompleteness ==
    (Truthy(species_filter) /\ species_docs # <<>>) =>
        /\ \A names \in filter_species_fuzzy(Map(species_docs, ScientificNameOf),
                                             species_filter, FuzzyThreshold) :
              names = NamesMeetingCutoff(Map(species_docs, ScientificNameOf),
                                         species_filter, FuzzyThreshold)
        /\ pc # "fetch" =>
              Range(species_df) =
                  {d \in Range(species_docs) :
                      partial_ratio(species_filter, d.scientific_name) >= FuzzyThreshold}

\* C16: in the statistics table the classification_count of a row is at least
\* that of the row after it.
C16_OutputOrdering ==
    pc = "done" =>
        \A i \in 1..(Len(stats_df) - 1) :
            stats_df[i].classification_count >= stats_df[i + 1].classification_count

\* A species of key 10 with two records ahead of a species of key 0 with one.
C16_Witness ==
    /\ pc = "done"
    /\ Len(stats_df) = 2
    /\ stats_df[1].key = 10 /\ stats_df[1].classification_count = 2
    /\ stats_df[2].key = 0 /\ stats_df[2].classification_count = 1

\* No classification of the snapshot reaches min_confidence.
NoClassificationFound == FindClassifications(classification_docs, min_confidence) = <<>>

\* C17: with an empty species snapshot, or no classification at or above
\* min_confidence, every stage returns an empty result and generate_report ends
\* after the fetch with no statistics row and no report file.
C17_EmptyInputs ==
    /\ clean_classifications(<<>>, min_confidence) = {<<>>}
    /\ aggregate_statistics(EmptyDataFrame) = {<<>>}
    /\ (species_docs = <<>> \/ NoClassificationFound) =>
          /\ pc \in {"fetch", "done"}
          /\ pc = "done" =>
                /\ classifications_df = <<>>
                /\ df = EmptyDataFrame
                /\ stats_df = <<>>
                /\ ~report_saved

\* A run ended over classifications that are all below min_confidence, and one
\* ended over an empty species snapshot, are both reachable; this is the first.
C17_Witness ==
    /\ pc = "done"
    /\ species_docs # <<>>
    /\ classification_docs # <<>>
    /\ observation_docs # <<>>
    /\ NoClassificationFound
    /\ ~report_saved

\* The classification documents with the defaults filled in: confidence 0.0 and
\* key 0 where the field is missing.
Defaulted(docs) ==
    [i \in 1..Len(docs) |->
        [docs[i] EXCEPT !.confidence = IF @ = NaN THEN 0 ELSE @,
                        !.key = IF @ = NaN THEN 0 ELSE @]]

\* What a run of generate_report over the given classification documents may end
\* with: an error raised, or a statistics table.
ReportOutcomes(docs) ==
    IF KeyColumnMissing(species_docs, docs, min_confidence)
    THEN {[raised |-> TRUE, stats |-> <<>>]}
    ELSE {[raised |-> FALSE, stats |-> st] :
            st \in UNION {UNION {aggregate_statistics([r.df EXCEPT !.rows = rows]) :
                                    rows \in clean_classifications(r.df.rows,
                                                                   min_confidence)} :
                            r \in fetch_data_from_mongodb(species_docs, species_filter,
                                                          docs, observation_docs,
                                                          min_confidence)}}

\* C18: the run over documents that lack a confidence or a key raises no error and
\* ends as a run over the same documents with confidence 0.0 and key 0 filled in.
C18_MissingFieldDefaults ==
    /\ pc # "error"
    /\ pc = "done" =>
          [raised |-> FALSE, stats |-> stats_df] \in
              ReportOutcomes(Defaulted(classification_docs))

\* The resolved records of the group of statistics row r that carry a count.
CountedRecords(r) ==
    {i \in 1..Len(df.rows) :
        /\ df.rows[i].key = r.key
        /\ df.rows[i].scientific_name = r.scientific_name
        /\ df.rows[i].observation_count # NaN}

\* Sum of observation_count over the records at positions S.
RECURSIVE ObservationCountOver(_)
ObservationCountOver(S) ==
    IF S = {} THEN 0
    ELSE LET i == CHOOSE j \in S : TRUE
         IN  df.rows[i].observation_count + ObservationCountOver(S \ {i})

\* C19 as claimed: the output carries total_observations if and only if some
\* resolved record carries an observation_count, and then each row's value is the
\* sum of observation_count over its group.
C19_TotalObservationsPresence ==
    pc = "done" =>
        \A k \in 1..Len(stats_df) :
            /\ stats_df[k].total_observations # NaN <=>
                   \E i \in 1..Len(df.rows) : df.rows[i].observation_count # NaN
            /\ stats_df[k].total_observations # NaN =>
                   stats_df[k].total_observations =
                       ObservationCountOver(CountedRecords(stats_df[k]))

\* C19 (amended): the output carries total_observations if and only if the
\* observation snapshot is not empty (so whenever some resolved record carries an
\* observation_count, and also when observations exist but none matched); each
\* row's value is the sum of observation_count over the records of its group
\* that carry one, 0 when none does.
C19_TotalObservationsWithSnapshot ==
    pc = "done" =>
        \A k \in 1..Len(stats_df) :
            /\ stats_df[k].total_observations # NaN <=> observation_docs # <<>>
            /\ (\E i \in 1..Len(df.rows) : df.rows[i].observation_count # NaN) =>
                   stats_df[k].total_observations # NaN
            /\ stats_df[k].total_observations # NaN =>
                   stats_df[k].total_observations =
                       ObservationCountOver(CountedRecords(stats_df[k]))

\* A group of two records that both carry the count of two observations.
C19_Witness ==
    /\ pc = "done"
    /\ \E k \in 1..Len(stats_df) :
          /\ Cardinality(CountedRecords(stats_df[k])) = 2
          /\ stats_df[k].total_observations = 2

\* A statistics row as the groupby produced it, before the summary merge.
BeforeMerge(r) == [r EXCEPT !.has_summary = FALSE, !.summary = <<>>]

\* C20: the summary merge is a left join on key alone: the statistics rows are
\* exactly the groupby's rows, one per group; a row whose key has no biological
\* data keeps null summary fields; a row whose key has data gets a summary
\* computed from the pooled data of every resolved record with that key; and
\* rows that share a key carry the same summary.
C20_SummaryMergeIsLeftJoinOnKey ==
    pc = "done" =>
        /\ Len(stats_df) = Cardinality(GroupKeys(df.rows))
        /\ \A k \in 1..Len(stats_df) :
              LET r == stats_df[k]
                  pooled == GroupBioData(df.rows, r.key)
              IN  /\ <<r.key, r.scientific_name>> \in GroupKeys(df.rows)
                  /\ BeforeMerge(r) = GroupStatistics(df, r.key, r.scientific_name)
                  /\ r.has_summary <=> pooled # <<>>
                  /\ r.has_summary => r.summary \in SummaryOutcomes(pooled)
        /\ \A i, j \in 1..Len(stats_df) :
              (stats_df[i].key = stats_df[j].key /\ stats_df[i].has_summary) =>
                  /\ stats_df[j].has_summary
                  /\ stats_df[j].summary = stats_df[i].summary

\* Two rows of one key under different names that carry the same non-empty
\* summary, while the resolved records hold observation columns.
C20_Witness ==
    /\ pc = "done"
    /\ df.observation_columns
    /\ \E i, j \in 1..Len(stats_df) :
          /\ stats_df[i].key = stats_df[j].key
          /\ stats_df[i].scientific_name # stats_df[j].scientific_name
          /\ stats_df[i].has_summary
          /\ DOMAIN stats_df[i].summary # {}
          /\ stats_df[j].summary = stats_df[i].summary

\* C21: when several records of one (audio_file_id, key) pair share the pair's
\* highest confidence, the record clean_classifications keeps is the one that
\* comes first in the input order.
C21_DeduplicationTieBreak ==
    pc = "clean" =>
        \A k \in 1..Len(classifications_df) :
            \A i \in 1..Len(classification_docs) :
                (/\ SamePair(classification_docs[i], classifications_df[k])
                 /\ classification_docs[i].confidence = classifications_df[k].confidence)
                    => classifications_df[k]._id <= classification_docs[i]._id

\* The cutoff the configuration asks for: fuzzy_threshold, 70 when not set.
ConfiguredCutoff ==
    IF report_config.fuzzy_threshold = NaN THEN FuzzyThreshold ELSE report_config.fuzzy_threshold

\* C22: with a species_filter set, the species kept are those whose name scores
\* at least the configured fuzzy_threshold (70 when not configured), and the
\* classifications kept are those of confidence at least the configured
\* min_confidence (0.5 when not configured).
C22_ConfiguredFuzzyCutoff ==
    (pc # "fetch" /\ Truthy(species_filter)) =>
        /\ species_df =
              SelectSeq(species_docs,
                        LAMBDA d : partial_ratio(species_filter, d.scientific_name)
                                       >= ConfiguredCutoff)
        /\ species_docs # <<>> =>
              \A c \in Range(classification_docs) :
                  (\E k \in 1..Len(classifications_df) :
                      SamePair(c, classifications_df[k]))
                      <=> c.confidence >= GetMinConfidence(report_config)

\* The species a record's key joins to (at most one: keys are unique).
KeyJoined(c) == {i \in 1..Len(species_df) : species_df[i].key = c.key}

\* The species whose scientific_name or canonical_name equals the reported name.
ExactNameMatches(c) ==
    {i \in 1..Len(species_df) :
        \/ species_df[i].scientific_name = c.scientific_name
        \/ species_df[i].canonical_name = c.scientific_name}

\* The fallback is attempted for c: no species-sourced name after the key join,
\* and a reported name that is non-empty and not 'Unknown'.
FallbackAttempted(c) ==
    /\ \A i \in KeyJoined(c) : species_df[i].scientific_name = None
    /\ c.scientific_name # None
    /\ c.scientific_name # ""
    /\ c.scientific_name # "Unknown"

\* The normalized classification a resolved record comes from.
SourceOf(r) == CHOOSE c \in Range(classifications_df) : c._id = r._id

\* C23: the name fallback acts only on records without a species-sourced name
\* whose reported name is non-empty and not 'Unknown'; it takes the first
\* species, in snapshot order, whose scientific_name or canonical_name equals the
\* reported name; every other record is as the key join left it.
C23_FallbackMatchingRule ==
    pc # "fetch" =>
        \A k \in 1..Len(df.rows) :
            LET r == df.rows[k]
                c == SourceOf(r)
                matches == ExactNameMatches(c)
                first == CHOOSE i \in matches : \A j \in matches : i <= j
            IN  /\ r.key = c.key
                /\ IF FallbackAttempted(c) /\ matches # {}
                   THEN /\ r.key_species = species_df[first].key
                        /\ r.scientific_name = species_df[first].scientific_name
                        /\ r.canonical_name_species = species_df[first].canonical_name
                        /\ r.family_species = species_df[first].family
                   ELSE /\ r.key_species = NaN
                        /\ r.family_species = None
                        /\ \A i \in KeyJoined(c) :
                              /\ r.scientific_name = species_df[i].scientific_name
                              /\ r.canonical_name = species_df[i].canonical_name
                              /\ r.family = species_df[i].family
                        /\ KeyJoined(c) = {} => r.scientific_name = c.scientific_name

\* A record outside the snapshot's keys whose reported name matches two species,
\* the first by canonical name: the first one is taken.
C23_Witness ==
    /\ pc = "clean"
    /\ Len(species_df) = 2
    /\ \E k \in 1..Len(df.rows) :
          /\ FallbackAttempted(SourceOf(df.rows[k]))
          /\ ExactNameMatches(SourceOf(df.rows[k])) = {1, 2}
          /\ species_df[1].scientific_name # species_df[2].scientific_name
          /\ df.rows[k].key_species = species_df[1].key
          /\ df.rows[k].scientific_name = species_df[1].scientific_name

\* The summary fields of attribute a in row r.
SummaryFields(r, a) == {c \in DOMAIN r.summary : c[2] = a}

\* C24 as claimed: for every key with a summary row and every attribute in the
\* union of the key's biological_data maps, the summary holds exactly one of
\* avg_<attribute> and most_common_<attribute>, null values included.
C24_AttributeSummarizedOnce ==
    pc = "done" =>
        \A i \in 1..Len(stats_df) : \A a \in Attributes :
            (stats_df[i].has_summary /\ CollectedValues(stats_df[i].key, a) # <<>>) =>
                Cardinality(SummaryFields(stats_df[i], a)) = 1

\* C24 (amended): the summary never holds both avg_<attribute> and
\* most_common_<attribute>; it holds exactly one of them for every attribute
\* with at least one non-null collected value, and neither for an attribute
\* whose collected values are all null (or that no map of the key holds).
C24_AttributeSummarizedOnceNonNull ==
    pc = "done" =>
        \A i \in 1..Len(stats_df) : \A a \in Attributes :
            stats_df[i].has_summary =>
                Cardinality(SummaryFields(stats_df[i], a)) =
                    IF NotNone(CollectedValues(stats_df[i].key, a)) # <<>> THEN 1 ELSE 0

\* A key with a summarized habitat beside a body_size_cm that is null in every
\* map, and so has no field.
C24_Witness ==
    /\ pc = "done"
    /\ \E i \in 1..Len(stats_df) :
          /\ stats_df[i].has_summary
          /\ CollectedValues(stats_df[i].key, "body_size_cm") = <<PyNone, PyNone>>
          /\ SummaryFields(stats_df[i], "body_size_cm") = {}
          /\ Cardinality(SummaryFields(stats_df[i], "habitat")) = 1

\* The observation snapshot with the enriched name column.
EnrichedObservations == EnrichObservations(observation_docs, species_docs)

\* C25: the key-aggregate of k counts and lists the biological_data of exactly
\* the observations with key = k, k > 0, and an observation with key <= 0 is in
\* no key-aggregate; the name-aggregate of n counts exactly the observations
\* whose key the species lookup maps to n, and an observation whose key is not in
\* the species snapshot is in no name-aggregate.
C25_AggregateConstruction ==
    LET by_key == obs_by_key(EnrichedObservations)
        by_name == obs_by_name(EnrichedObservations)
        InSnapshot(o) == \E i \in 1..Len(species_docs) : species_docs[i].key = o.key
    IN  /\ \A g \in by_key :
              /\ g.key > 0
              /\ g.observation_count = Len(KeyAggregate(g.key))
              /\ g.biological_data_list = Map(KeyAggregate(g.key), BiologicalDataOf)
              /\ \A h \in by_key : h.key = g.key => h = g
        /\ \A o \in Range(observation_docs) :
              (\E g \in by_key : g.key = o.key) <=> o.key > 0
        /\ \A g \in by_name :
              /\ g.observation_count_by_name = Len(NameAggregate(g.scientific_name))
              /\ g.biological_data_by_name =
                     Map(NameAggregate(g.scientific_name), BiologicalDataOf)
              /\ \A h \in by_name : h.scientific_name = g.scientific_name => h = g
        /\ \A o \in Range(observation_docs) :
              (\E g \in by_name : o \in Range(NameAggregate(g.scientific_name)))
                  <=> InSnapshot(o)

\* Observations of a species' key beside one of key 0: the first is in both
\* aggregates, the second in none, and a resolved record carries the count.
C25_Witness ==
    /\ pc = "clean"
    /\ \E o \in Range(observation_docs) : o.key <= 0
    /\ \E g \in obs_by_key(EnrichedObservations) :
          /\ g.observation_count = 1
          /\ \E h \in obs_by_name(EnrichedObservations) :
                h.biological_data_by_name = g.biological_data_list
          /\ \E k \in 1..Len(df.rows) :
                df.rows[k].key = g.key /\ df.rows[k].observation_count = 1

\* The classification documents grouped into statistics row r.
GroupDocuments(r) ==
    {c \in Range(classification_docs) :
        c.key = r.key /\ c.confidence >= min_confidence}

\* C26: in every output row whose records all carry an audio_file_id,
\* unique_audio_files equals classification_count; a record without
\* audio_file_id (at most one per key after normalization) is counted in
\* classification_count only.
C26_UniqueAudioFilesEqualsCount ==
    pc = "done" =>
        \A k \in 1..Len(stats_df) :
            LET r == stats_df[k]
            IN  /\ (\A c \in GroupDocuments(r) : c.audio_file_id # None) =>
                       r.unique_audio_files = r.classification_count
                /\ r.classification_count - 1 <= r.unique_audio_files
                /\ r.unique_audio_files <= r.classification_count

\* A group of two audio files, one of them classified twice under the key.
C26_Witness ==
    /\ pc = "done"
    /\ \E k \in 1..Len(stats_df) :
          /\ \A c \in GroupDocuments(stats_df[k]) : c.audio_file_id # None
          /\ \E c, d \in GroupDocuments(stats_df[k]) : c # d /\ SamePair(c, d)
          /\ stats_df[k].classification_count = 2
          /\ stats_df[k].unique_audio_files = 2

\* The normalized classifications whose key is that of a species the filter
\* excluded.
OfExcludedSpecies ==
    {c \in Range(classifications_df) :
        /\ \E i \in 1..Len(species_docs) : species_docs[i].key = c.key
        /\ \A i \in 1..Len(species_df) : species_df[i].key # c.key}

\* C27 as claimed: with a species_filter set, a classification whose key is that
\* of an excluded species is not removed: the output holds a row of its key and
\* its reported scientific_name.
C27_FilterNarrowsSpeciesOnly ==
    (pc = "done" /\ Truthy(species_filter)) =>
        \A c \in OfExcludedSpecies :
            \E k \in 1..Len(stats_df) :
                /\ stats_df[k].key = c.key
                /\ stats_df[k].scientific_name = c.scientific_name

\* C27 (amended): with a species_filter set, a classification whose key is that
\* of an excluded species stays among the resolved records, without the excluded
\* species' data.  When it reports a name, the output holds a row of its key,
\* under the reported name, or under the scientific_name of the first kept
\* species that the reported name matches exactly; when it reports no name, no
\* output row counts it.
C27_FilterNarrowsSpeciesOnlyNamed ==
    (pc = "done" /\ Truthy(species_filter)) =>
        \A c \in OfExcludedSpecies :
            LET matches == ExactNameMatches(c)
                first == CHOOSE i \in matches : \A j \in matches : i <= j
                name == IF c.scientific_name # "Unknown" /\ matches # {}
                        THEN species_df[first].scientific_name
                        ELSE c.scientific_name
            IN  /\ \E k \in 1..Len(df.rows) :
                      /\ SamePair(df.rows[k], c)
                      /\ df.rows[k].family = None
                      /\ df.rows[k].scientific_name = name
                /\ c.scientific_name # None =>
                      \E k \in 1..Len(stats_df) :
                          stats_df[k].key = c.key /\ stats_df[k].scientific_name = name
                /\ (\A d \in Range(classifications_df) :
                       d.key = c.key => d.scientific_name = None) =>
                      \A k \in 1..Len(stats_df) : stats_df[k].key # c.key

\* A classification of the excluded Ninox boobook, reported under that name,
\* beside a resolved one of the kept species.
C27_Witness ==
    /\ pc = "done"
    /\ species_filter = "Parus"
    /\ Len(species_df) = 1
    /\ \E c \in OfExcludedSpecies : c.scientific_name = "Ninox boobook"
    /\ \E k \in 1..Len(stats_df) :
          stats_df[k].key = 70 /\ stats_df[k].scientific_name = "Ninox boobook"
    /\ \E k \in 1..Len(stats_df) : stats_df[k].key = 10

\* The consumed messages whose latitude and longitude are numbers.
NumericConsumed ==
    {i \in 1..consumer.position :
        /\ consumer.messages[i].latitude.kind = "num"
        /\ consumer.messages[i].longitude.kind = "num"}

\* C28: every consumed message with numeric latitude and longitude is parsed
\* and, unless its insert fails, stored as exactly one observation document, so
\* stored_count is the number of such messages; a failing message is skipped and
\* the later ones are still consumed; stored_count <= message_count.
C28_OneObservationPerMessage ==
    /\ consumer.stored_count <= consumer.message_count
    /\ consumer.stored_count = Len(consumer.observations)
    /\ consumer.message_count = consumer.position
    /\ \A i \in NumericConsumed :
          \/ i \in consumer.insert_errors
          \/ Cardinality({k \in 1..Len(consumer.observations) :
                             consumer.observations[k].message = i}) = 1
    /\ consumer.insert_errors = {} =>
          consumer.stored_count >= Cardinality(NumericConsumed)

\* Every response of a sequence is a request error.
AllFailed(responses) == \A i \in 1..Len(responses) : responses[i] = "error"

\* The waits 1, 2, 4, ... after the first k failed attempts.
ExpectedSleeps(k) == [i \in 1..k |-> Pow2(i - 1)]

\* C29: with retry_attempts = n >= 1 a _fetch_page call issues at most n
\* requests, returns the page at the first successful response without a further
\* request, returns None if and only if all n requests failed, and has slept
\* 2^attempt seconds after every failed attempt but the n-th.
C29_BoundedRetry ==
    LET n == scraper.retry_attempts
    IN  n >= 1 =>
            /\ \A c \in 1..Len(scraper.calls) :
                  LET call == scraper.calls[c]
                      requests == Len(call.responses)
                  IN  /\ 1 <= requests /\ requests <= n
                      /\ AllFailed(SubSeq(call.responses, 1, requests - 1))
                      /\ call.result = "page" <=> call.responses[requests] = "ok"
                      /\ call.result = "None" <=>
                             (requests = n /\ AllFailed(call.responses))
                      /\ call.sleeps =
                             ExpectedSleeps(IF call.result = "None"
                                            THEN n - 1 ELSE requests - 1)
            /\ Len(scraper.responses) = scraper.attempt
            /\ scraper.attempt <= n - 1
            /\ AllFailed(scraper.responses)
            /\ scraper.sleeps = ExpectedSleeps(scraper.attempt)

\* With three attempts: a call that gave up after sleeping 1 and 2 seconds, and
\* a call that got its page at the third request.
C29_Witness ==
    /\ scraper.retry_attempts = 3
    /\ \E c \in 1..Len(scraper.calls) :
          /\ scraper.calls[c].result = "None"
          /\ scraper.calls[c].sleeps = <<1, 2>>
    /\ \E c \in 1..Len(scraper.calls) :
          /\ scraper.calls[c].result = "page"
          /\ scraper.calls[c].responses = <<"error", "error", "ok">>

\* The files given up at one of the stages.
FailedAt(stages) == {f.file : f \in {g \in processor.failures : g.stage \in stages}}

\* C30: every inserted classification carries the audio_file_id of an audio
\* record inserted earlier for the same file; a file whose upload, audio-record
\* insert or API call failed has no classification; a failure does not stop the
\* later files (every file the loop has passed has its audio record or failed
\* before it); the two counters equal the numbers of records inserted.
C30_AudioProcessingOrderAndIsolation ==
    /\ \A c \in Range(processor.classification_collection) :
          \E a \in Range(processor.audio_collection) :
              a._id = c.audio_file_id /\ a.file = c.file /\ a.order < c.order
    /\ \A c \in Range(processor.classification_collection) :
          c.file \notin FailedAt({"upload", "audio_insert", "api"})
    /\ \A f \in 1..(processor.idx - 1) :
          \/ \E a \in Range(processor.audio_collection) : a.file = f
          \/ f \in FailedAt({"upload", "audio_insert"})
    /\ processor.idx <= processor.audio_files + 1
    /\ processor.uploaded_count = Len(processor.audio_collection)
    /\ processor.classified_count = Len(processor.classification_collection)

\* The first file failed at its upload and the second has two classifications.
C30_Witness ==
    /\ 1 \in FailedAt({"upload"})
    /\ processor.idx = 3
    /\ processor.classified_count = 2
    /\ \A c \in Range(processor.classification_collection) : c.file = 2

====
